---- MODULE Spec2Model ----
(***************************************************************************)
(* Room-scoped publish/subscribe hub of the api package: the subscribers   *)
(* registry guarded by one mutex, the handleSubscribe connection lifecycle *)
(* and notifyClients, the broadcast started by the event-producing         *)
(* handlers in a goroutine of its own.                                     *)
(***************************************************************************)
EXTENDS Integers, Sequences, FiniteSets, TLC

\* Number of /subscribe requests (one websocket connection each).
MaxSubs == 2
\* Number of event-producing requests (one notifyClients goroutine each).
MaxPubs == 2

Subs == 1..MaxSubs
Pubs == 1..MaxPubs

VARIABLES
    subscribers,  \* h.subscribers: raw room id -> (conn -> lifecycle its cancel ends)
    mu,           \* h.mu: TRUE while locked
    pc,           \* handleSubscribe: position of each lifecycle
    rawRoomID,    \* handleSubscribe: the rawRoomID local of each lifecycle
    ctl,          \* ctx/cancel of each lifecycle: "none", "armed", "fired"
    reqEnded,     \* r.Context() of the subscribe request has ended
    cancelCalls,  \* calls of the lifecycle's cancel func made by notifyClients
    closed,       \* c.Close() has run on the connection
    resp,         \* HTTP outcome of the subscribe request
    delivered,    \* frames written successfully on each connection
    hpc,          \* event-producing handler: position
    hresp,        \* event-producing handler: HTTP outcome
    npc,          \* notifyClients goroutine: position
    msg,          \* notifyClients: its msg argument
    writes,       \* notifyClients: WriteJSON calls made so far, in order
    atLock,       \* notifyClients: the registry as it was when h.mu.Lock() returned
    ahead         \* notifyClients: the publishes for the same room whose handlers had
                  \* returned, and which still waited for the lock, when the
                  \* handler of this one began

vars == <<subscribers, mu, pc, rawRoomID, ctl, reqEnded, cancelCalls, closed,
          resp, delivered, hpc, hresp, npc, msg, writes, atLock, ahead>>

subVars == <<pc, rawRoomID, ctl, reqEnded, cancelCalls, closed, resp>>
pubVars == <<hpc, hresp, npc, msg, writes, atLock, ahead>>

----------------------------------------------------------------------------
(* Identifiers.  A UUID is shortened to two hex digits; uuid.Parse decodes *)
(* the digits case-insensitively, UUID.String prints them in lower case.   *)

NoID == <<>>

\* room_id path parameters a client may send: two spellings of a stored room's
\* id, the id of no stored room, and a string that is no UUID
RawIDs == { <<"a", "1">>, <<"A", "1">>, <<"c", "1">>, <<"z", "1">> }

\* value of one hex digit, -1 when the character is no hex digit
xvalue(ch) ==
    CASE ch = "1" -> 1
      [] ch = "2" -> 2
      [] ch \in {"a", "A"} -> 10
      [] ch \in {"b", "B"} -> 11
      [] ch \in {"c", "C"} -> 12
      [] OTHER -> -1

uuidParse(raw) ==
    IF Len(raw) = 2 /\ \A i \in 1..2 : xvalue(raw[i]) >= 0
    THEN [ok |-> TRUE, id |-> <<xvalue(raw[1]), xvalue(raw[2])>>]
    ELSE [ok |-> FALSE, id |-> NoID]

hexdigit(n) ==
    CASE n = 1 -> "1"
      [] n = 2 -> "2"
      [] n = 10 -> "a"
      [] n = 11 -> "b"
      [] n = 12 -> "c"

uuidString(id) == <<hexdigit(id[1]), hexdigit(id[2])>>

\* rows of the rooms table
StoredRooms == { <<10, 1>> }
\* rows of the messages table
StoredMessages == { <<10, 2>> }
\* outcome of a store query besides the row: the query itself may fail
DBOutcomes == {"ok", "error"}

\* variant: a room id that parses is accepted without the row being found
readRoomNoLookup(raw, db) ==
    LET p == uuidParse(raw) IN
    IF ~p.ok THEN [ok |-> FALSE, status |-> "400", rawRoomID |-> raw, roomID |-> NoID]
    ELSE IF db # "ok"
         THEN [ok |-> FALSE, status |-> "500", rawRoomID |-> raw, roomID |-> p.id]
    ELSE [ok |-> TRUE, status |-> "ok", rawRoomID |-> raw, roomID |-> p.id]

\* readRoom: the status it answers with ("ok" when it answers nothing)
readRoom(raw, db) ==
    LET p == uuidParse(raw) IN
    IF ~p.ok THEN [ok |-> FALSE, status |-> "400", rawRoomID |-> raw, roomID |-> NoID]
    ELSE IF db = "ok" /\ p.id \notin StoredRooms
         THEN [ok |-> FALSE, status |-> "400", rawRoomID |-> raw, roomID |-> p.id]
    ELSE IF db # "ok"
         THEN [ok |-> FALSE, status |-> "500", rawRoomID |-> raw, roomID |-> p.id]
    ELSE [ok |-> TRUE, status |-> "ok", rawRoomID |-> raw, roomID |-> p.id]

readMessage(raw, db) ==
    LET p == uuidParse(raw) IN
    IF ~p.ok THEN [ok |-> FALSE, status |-> "400", rawMessageID |-> raw, messageID |-> NoID]
    ELSE IF db = "ok" /\ p.id \notin StoredMessages
         THEN [ok |-> FALSE, status |-> "400", rawMessageID |-> raw, messageID |-> p.id]
    ELSE IF db # "ok"
         THEN [ok |-> FALSE, status |-> "500", rawMessageID |-> raw, messageID |-> p.id]
    ELSE [ok |-> TRUE, status |-> "ok", rawMessageID |-> raw, messageID |-> p.id]

----------------------------------------------------------------------------
(* Events *)

MessageCreated == "message_created"
MessageRactionIncreased == "message_reaction_increased"
MessageRactionDecreased == "message_reaction_decreased"
MessageAnswered == "message_answered"

MessageKinds == {MessageCreated, MessageRactionIncreased,
                 MessageRactionDecreased, MessageAnswered}

NoMsg == [Kind |-> "", Value |-> NoID, RoomID |-> NoID]

\* Message: Kind, Value, RoomID
Message(kind, value, room) == [Kind |-> kind, Value |-> value, RoomID |-> room]

\* variant: the payload is left out of the frame
WireJSONNoValue(m) == [kind |-> m.Kind, value |-> NoID]

\* the JSON frame of a Message: RoomID carries the tag json:"-"
WireJSON(m) == [kind |-> m.Kind, value |-> m.Value]

----------------------------------------------------------------------------
(* The registry *)

EmptyMap == [c \in {} |-> 0]

\* make(map[string]map[*websocket.Conn]context.CancelFunc)
EmptyRegistry == [k \in {} |-> EmptyMap]

\* subscribers, ok := h.subscribers[key]
HasRoom(subs, key) == key \in DOMAIN subs

\* variant: the lookup compares parsed room ids, so that every spelling of one
\* UUID selects the same connections
RoomMapByUUID(subs, key) ==
    LET ks == { k \in DOMAIN subs : uuidParse(k).id = uuidParse(key).id }
    IN [c \in UNION { DOMAIN subs[k] : k \in ks } |-> c]

\* h.subscribers[key]: the inner map, the empty (nil) map when the key is absent
RoomMap(subs, key) == IF HasRoom(subs, key) THEN subs[key] ELSE EmptyMap

\* the connections registered under key
ConnsOf(subs, key) == DOMAIN RoomMap(subs, key)

\* variant: the inner map is made anew on every registration
RegisterFresh(subs, key, c) ==
    [k \in (DOMAIN subs) \cup {key} |-> IF k = key THEN [x \in {c} |-> c] ELSE subs[k]]

\* h.subscribers[rawRoomID][c] = cancel, creating the inner map when missing
Register(subs, key, c) ==
    LET inner == RoomMap(subs, key)
        inner2 == [x \in (DOMAIN inner) \cup {c} |-> IF x = c THEN c ELSE inner[x]]
    IN [k \in (DOMAIN subs) \cup {key} |-> IF k = key THEN inner2 ELSE subs[k]]

\* variant: the removal addresses the room by its canonical id
DeregisterCanonical(subs, key, c) ==
    LET canon == uuidString(uuidParse(key).id) IN
    IF ~HasRoom(subs, canon) THEN subs
    ELSE [k \in DOMAIN subs |->
            IF k = canon THEN [x \in (DOMAIN subs[k]) \ {c} |-> subs[k][x]]
            ELSE subs[k]]

\* variant: the room's entry goes with its last connection
DeregisterAndPrune(subs, key, c) ==
    IF ~HasRoom(subs, key) THEN subs
    ELSE LET rest == (DOMAIN subs[key]) \ {c}
             keys == IF rest = {} THEN (DOMAIN subs) \ {key} ELSE DOMAIN subs
         IN [k \in keys |->
               IF k = key THEN [x \in rest |-> subs[k][x]] ELSE subs[k]]

\* variant: the removal is left out
DeregisterNothing(subs, key, c) == subs

\* delete(h.subscribers[rawRoomID], c)
Deregister(subs, key, c) ==
    IF ~HasRoom(subs, key) THEN subs
    ELSE [k \in DOMAIN subs |->
            IF k = key THEN [x \in (DOMAIN subs[k]) \ {c} |-> subs[k][x]]
            ELSE subs[k]]

\* variant: the sections run without the mutex
MutexFreeAlways == TRUE

\* h.mu.Lock() can return: the mutex is not held
MutexFree == ~mu

----------------------------------------------------------------------------
Init ==
    /\ subscribers = EmptyRegistry
    /\ mu = FALSE
    /\ pc = [s \in Subs |-> "idle"]
    /\ rawRoomID = [s \in Subs |-> NoID]
    /\ ctl = [s \in Subs |-> "none"]
    /\ reqEnded = [s \in Subs |-> FALSE]
    /\ cancelCalls = [s \in Subs |-> 0]
    /\ closed = [s \in Subs |-> FALSE]
    /\ resp = [s \in Subs |-> "none"]
    /\ delivered = [s \in Subs |-> <<>>]
    /\ hpc = [p \in Pubs |-> "idle"]
    /\ hresp = [p \in Pubs |-> "none"]
    /\ npc = [p \in Pubs |-> "idle"]
    /\ msg = [p \in Pubs |-> NoMsg]
    /\ writes = [p \in Pubs |-> <<>>]
    /\ atLock = [p \in Pubs |-> EmptyRegistry]
    /\ ahead = [p \in Pubs |-> {}]

----------------------------------------------------------------------------
(* The cancellation control: ctx, cancel := context.WithCancel(r.Context()) *)

\* variant: a one-shot signal that may be triggered once only
cancelOnce(state) == IF state = "fired" THEN "panicked" ELSE "fired"

\* the state of a context after its cancel func is called: calling it again,
\* or after the parent context ended, leaves the context done
cancel(state) == "fired"

\* variant: the lifecycle waits on the request context instead of ctx
CtxDoneRequestOnly(s) == reqEnded[s]

\* variant: the lifecycle does not wait
CtxDoneAlways(s) == TRUE

\* ctx.Done() is closed
CtxDone(s) == ctl[s] = "fired"

----------------------------------------------------------------------------
(* handleSubscribe *)

\* readRoom, Upgrade, defer c.Close(), context.WithCancel(r.Context());
\* connections are numbered in the order in which their requests start
SubscribeStart(s) ==
    /\ pc[s] = "idle"
    /\ \A o \in Subs : o < s => pc[o] # "idle"
    /\ \E raw \in RawIDs, db \in DBOutcomes, upgraded \in BOOLEAN :
         LET rr == readRoom(raw, db) IN
         IF ~rr.ok
         THEN /\ pc' = [pc EXCEPT ![s] = "done"]
              /\ resp' = [resp EXCEPT ![s] = rr.status]
              /\ UNCHANGED <<rawRoomID, ctl>>
         ELSE IF ~upgraded
         THEN /\ pc' = [pc EXCEPT ![s] = "done"]
              /\ resp' = [resp EXCEPT ![s] = "400"]
              /\ UNCHANGED <<rawRoomID, ctl>>
         ELSE /\ pc' = [pc EXCEPT ![s] = "lock"]
              /\ resp' = [resp EXCEPT ![s] = "101"]
              /\ rawRoomID' = [rawRoomID EXCEPT ![s] = rr.rawRoomID]
              /\ ctl' = [ctl EXCEPT ![s] = "armed"]
    /\ UNCHANGED <<subscribers, mu, reqEnded, cancelCalls, closed, delivered>>
    /\ UNCHANGED pubVars

\* h.mu.Lock() before the registration
SubscribeLock(s) ==
    /\ pc[s] = "lock"
    /\ MutexFree
    /\ mu' = TRUE
    /\ pc' = [pc EXCEPT ![s] = "register"]
    /\ UNCHANGED <<subscribers, rawRoomID, ctl, reqEnded, cancelCalls, closed,
                   resp, delivered>>
    /\ UNCHANGED pubVars

\* the registration and h.mu.Unlock()
SubscribeRegister(s) ==
    /\ pc[s] = "register"
    /\ subscribers' = Register(subscribers, rawRoomID[s], s)
    /\ mu' = FALSE
    /\ pc' = [pc EXCEPT ![s] = "wait"]
    /\ UNCHANGED <<rawRoomID, ctl, reqEnded, cancelCalls, closed, resp, delivered>>
    /\ UNCHANGED pubVars

\* <-ctx.Done()
SubscribeDone(s) ==
    /\ pc[s] = "wait"
    /\ CtxDone(s)
    /\ pc' = [pc EXCEPT ![s] = "relock"]
    /\ UNCHANGED <<subscribers, mu, rawRoomID, ctl, reqEnded, cancelCalls, closed,
                   resp, delivered>>
    /\ UNCHANGED pubVars

\* h.mu.Lock() before the removal
SubscribeRelock(s) ==
    /\ pc[s] = "relock"
    /\ MutexFree
    /\ mu' = TRUE
    /\ pc' = [pc EXCEPT ![s] = "deregister"]
    /\ UNCHANGED <<subscribers, rawRoomID, ctl, reqEnded, cancelCalls, closed,
                   resp, delivered>>
    /\ UNCHANGED pubVars

\* delete(h.subscribers[rawRoomID], c) and h.mu.Unlock()
SubscribeDeregister(s) ==
    /\ pc[s] = "deregister"
    /\ subscribers' = Deregister(subscribers, rawRoomID[s], s)
    /\ mu' = FALSE
    /\ pc' = [pc EXCEPT ![s] = "close"]
    /\ UNCHANGED <<rawRoomID, ctl, reqEnded, cancelCalls, closed, resp, delivered>>
    /\ UNCHANGED pubVars

\* the deferred c.Close() as handleSubscribe returns
SubscribeClose(s) ==
    /\ pc[s] = "close"
    /\ closed' = [closed EXCEPT ![s] = TRUE]
    /\ pc' = [pc EXCEPT ![s] = "done"]
    /\ UNCHANGED <<subscribers, mu, rawRoomID, ctl, reqEnded, cancelCalls, resp,
                   delivered>>
    /\ UNCHANGED pubVars

\* the request context of a subscribe request ends (client gone, server shutdown);
\* a context derived from it is done with it. Once the lifecycle is past its wait
\* the end of the request context is of no effect and is left out.
RequestContextEnd(s) ==
    /\ pc[s] \in {"lock", "register", "wait"}
    /\ ctl[s] # "none"
    /\ ~reqEnded[s]
    /\ reqEnded' = [reqEnded EXCEPT ![s] = TRUE]
    /\ ctl' = [ctl EXCEPT ![s] = "fired"]
    /\ UNCHANGED <<subscribers, mu, pc, rawRoomID, cancelCalls, closed, resp,
                   delivered>>
    /\ UNCHANGED pubVars

----------------------------------------------------------------------------
(* The event-producing handlers *)

\* message_id path parameters a client may send
RawMessageIDs == { <<"a", "2">>, <<"c", "1">>, <<"z", "1">> }
\* ids InsertMessage may return
NewMessageIDs == { <<12, 2>> }
\* message texts of a request body
Bodies == { "hi" }
\* reaction counts the store may return
Counts == { 1 }

\* requests are numbered in the order in which their handlers start
NextRequest(p) ==
    /\ hpc[p] = "idle"
    /\ \A o \in Pubs : o < p => hpc[o] # "idle"

\* a handler answers with an error and returns
Reject(p, status) ==
    /\ hpc' = [hpc EXCEPT ![p] = "returned"]
    /\ hresp' = [hresp EXCEPT ![p] = status]
    /\ UNCHANGED <<npc, msg, writes, atLock, ahead>>

\* a handler has answered with success and reaches its go statement
Respond(p, m) ==
    /\ hpc' = [hpc EXCEPT ![p] = "go"]
    /\ hresp' = [hresp EXCEPT ![p] = "200"]
    /\ msg' = [msg EXCEPT ![p] = m]
    /\ ahead' = [ahead EXCEPT ![p] =
                   { o \in Pubs : /\ hpc[o] = "returned"
                                   /\ npc[o] = "lock"
                                   /\ msg[o].RoomID = m.RoomID }]
    /\ UNCHANGED <<npc, writes, atLock>>

handleCreateRoomMessage(p) ==
    /\ NextRequest(p)
    /\ \E raw \in RawIDs, db \in DBOutcomes, decoded \in BOOLEAN, body \in Bodies,
          ins \in DBOutcomes, messageID \in NewMessageIDs :
         LET rr == readRoom(raw, db) IN
         IF ~rr.ok THEN Reject(p, rr.status)
         ELSE IF ~decoded THEN Reject(p, "400")
         ELSE IF ins # "ok" THEN Reject(p, "500")
         ELSE Respond(p, Message(MessageCreated,
                                 [id |-> uuidString(messageID), message |-> body],
                                 rr.rawRoomID))
    /\ UNCHANGED <<subscribers, mu, delivered>>
    /\ UNCHANGED subVars

handleAddReactToMessage(p) ==
    /\ NextRequest(p)
    /\ \E raw \in RawIDs, db \in DBOutcomes, rawMsg \in RawMessageIDs,
          dbm \in DBOutcomes, upd \in DBOutcomes, count \in Counts :
         LET rr == readRoom(raw, db)
             rm == readMessage(rawMsg, dbm) IN
         IF ~rr.ok THEN Reject(p, rr.status)
         ELSE IF ~rm.ok THEN Reject(p, rm.status)
         ELSE IF upd # "ok" THEN Reject(p, "500")
         ELSE Respond(p, Message(MessageRactionIncreased,
                                 [id |-> rm.rawMessageID, count |-> count],
                                 rr.rawRoomID))
    /\ UNCHANGED <<subscribers, mu, delivered>>
    /\ UNCHANGED subVars

handleRemoveReactFromMessage(p) ==
    /\ NextRequest(p)
    /\ \E raw \in RawIDs, db \in DBOutcomes, rawMsg \in RawMessageIDs,
          dbm \in DBOutcomes, upd \in DBOutcomes, count \in Counts :
         LET rr == readRoom(raw, db)
             rm == readMessage(rawMsg, dbm) IN
         IF ~rr.ok THEN Reject(p, rr.status)
         ELSE IF ~rm.ok THEN Reject(p, rm.status)
         ELSE IF upd # "ok" THEN Reject(p, "500")
         ELSE Respond(p, Message(MessageRactionDecreased,
                                 [id |-> rm.rawMessageID, count |-> count],
                                 rr.rawRoomID))
    /\ UNCHANGED <<subscribers, mu, delivered>>
    /\ UNCHANGED subVars

handleMarkMessageAsAnswered(p) ==
    /\ NextRequest(p)
    /\ \E raw \in RawIDs, db \in DBOutcomes, rawMsg \in RawMessageIDs,
          dbm \in DBOutcomes, upd \in DBOutcomes :
         LET rr == readRoom(raw, db)
             rm == readMessage(rawMsg, dbm) IN
         IF ~rr.ok THEN Reject(p, rr.status)
         ELSE IF ~rm.ok THEN Reject(p, rm.status)
         ELSE IF upd # "ok" THEN Reject(p, "500")
         ELSE Respond(p, Message(MessageAnswered,
                                 [id |-> rm.rawMessageID],
                                 rr.rawRoomID))
    /\ UNCHANGED <<subscribers, mu, delivered>>
    /\ UNCHANGED subVars

\* variant: notifyClients is called without go, the handler waits for it
HandlerAfterCall == "waiting"

\* where a handler stands once its go statement has started notifyClients
HandlerAfterGo == "returned"

\* go h.notifyClients(msg), after which the handler returns
GoNotifyClients(p) ==
    /\ hpc[p] = "go"
    /\ hpc' = [hpc EXCEPT ![p] = HandlerAfterGo]
    /\ npc' = [npc EXCEPT ![p] = "lock"]
    /\ UNCHANGED <<hresp, msg, writes, atLock, ahead>>
    /\ UNCHANGED <<subscribers, mu, delivered>>
    /\ UNCHANGED subVars

----------------------------------------------------------------------------
(* notifyClients *)

\* the connections on which WriteJSON has been called
Visited(p) == { writes[p][i].conn : i \in 1..Len(writes[p]) }

\* variant: the loop is left at the first failed write
RemainingUntilError(p) ==
    IF \E i \in 1..Len(writes[p]) : writes[p][i].res = "err"
    THEN {}
    ELSE ConnsOf(subscribers, msg[p].RoomID) \ Visited(p)

\* what the range statement has yet to produce: entries of the map not visited
Remaining(p) == ConnsOf(subscribers, msg[p].RoomID) \ Visited(p)

\* h.mu.Lock(), the lookup and the early return test
NotifyLock(p) ==
    /\ npc[p] = "lock"
    /\ MutexFree
    /\ mu' = TRUE
    /\ atLock' = [atLock EXCEPT ![p] = subscribers]
    /\ ahead' = [ahead EXCEPT ![p] = {}]
    /\ npc' = [npc EXCEPT ![p] =
                 IF ~HasRoom(subscribers, msg[p].RoomID)
                    \/ Cardinality(ConnsOf(subscribers, msg[p].RoomID)) = 0
                 THEN "unlock" ELSE "range"]
    /\ UNCHANGED <<hpc, hresp, msg, writes>>
    /\ UNCHANGED <<subscribers, delivered>>
    /\ UNCHANGED subVars

\* the range statement yields conn, cancel and conn.WriteJSON(msg) is called
NotifyWrite(p) ==
    /\ npc[p] = "range"
    /\ \E conn \in Remaining(p) :
         writes' = [writes EXCEPT ![p] =
                      Append(@, [conn |-> conn,
                                 cancel |-> RoomMap(subscribers, msg[p].RoomID)[conn],
                                 res |-> "pending"])]
    /\ npc' = [npc EXCEPT ![p] = "writing"]
    /\ UNCHANGED <<hpc, hresp, msg, atLock, ahead>>
    /\ UNCHANGED <<subscribers, mu, delivered>>
    /\ UNCHANGED subVars

\* the ways a WriteJSON call may return: on a closed connection only with an error
WriteResults(conn) == IF closed[conn] THEN {"err"} ELSE {"ok", "err"}

\* variant: the error branch deletes the failing connection itself
OnWriteErrorDelete(subs, key, conn) == Deregister(subs, key, conn)

\* the registry after a failed write on conn: the error branch logs and calls
\* cancel, it deletes nothing
OnWriteError(subs, key, conn) == subs

\* WriteJSON returns; on an error the entry's cancel is called
NotifyWriteReturn(p) ==
    /\ npc[p] = "writing"
    /\ LET n == Len(writes[p])
           w == writes[p][n] IN
       \E res \in WriteResults(w.conn) :
         /\ writes' = [writes EXCEPT ![p][n].res = res]
         /\ IF res = "ok"
            THEN /\ delivered' = [delivered EXCEPT ![w.conn] =
                                    Append(@, [pub |-> p, room |-> msg[p].RoomID,
                                               frame |-> WireJSON(msg[p])])]
                 /\ UNCHANGED <<ctl, cancelCalls, subscribers>>
            ELSE /\ ctl' = [ctl EXCEPT ![w.cancel] = cancel(@)]
                 /\ cancelCalls' = [cancelCalls EXCEPT ![w.cancel] = @ + 1]
                 /\ subscribers' = OnWriteError(subscribers, msg[p].RoomID, w.conn)
                 /\ UNCHANGED delivered
    /\ npc' = [npc EXCEPT ![p] = "range"]
    /\ UNCHANGED <<hpc, hresp, msg, atLock, ahead>>
    /\ UNCHANGED mu
    /\ UNCHANGED <<pc, rawRoomID, reqEnded, closed, resp>>

\* the range statement is exhausted (or notifyClients returned early): the
\* deferred h.mu.Unlock() runs and the goroutine ends, its locals with it
NotifyUnlock(p) ==
    /\ \/ npc[p] = "unlock"
       \/ npc[p] = "range" /\ Remaining(p) = {}
    /\ mu' = FALSE
    /\ npc' = [npc EXCEPT ![p] = "done"]
    /\ msg' = [msg EXCEPT ![p] = NoMsg]
    /\ writes' = [writes EXCEPT ![p] = <<>>]
    /\ atLock' = [atLock EXCEPT ![p] = EmptyRegistry]
    /\ UNCHANGED ahead
    /\ UNCHANGED <<hpc, hresp>>
    /\ UNCHANGED <<subscribers, delivered>>
    /\ UNCHANGED subVars

----------------------------------------------------------------------------
Next ==
    \/ \E s \in Subs : SubscribeStart(s)
    \/ \E s \in Subs : SubscribeLock(s)
    \/ \E s \in Subs : SubscribeRegister(s)
    \/ \E s \in Subs : SubscribeDone(s)
    \/ \E s \in Subs : SubscribeRelock(s)
    \/ \E s \in Subs : SubscribeDeregister(s)
    \/ \E s \in Subs : SubscribeClose(s)
    \/ \E s \in Subs : RequestContextEnd(s)
    \/ \E p \in Pubs : handleCreateRoomMessage(p)
    \/ \E p \in Pubs : handleAddReactToMessage(p)
    \/ \E p \in Pubs : handleRemoveReactFromMessage(p)
    \/ \E p \in Pubs : handleMarkMessageAsAnswered(p)
    \/ \E p \in Pubs : GoNotifyClients(p)
    \/ \E p \in Pubs : NotifyLock(p)
    \/ \E p \in Pubs : NotifyWrite(p)
    \/ \E p \in Pubs : NotifyWriteReturn(p)
    \/ \E p \in Pubs : NotifyUnlock(p)

Spec == Init /\ [][Next]_vars

\* a step of a goroutine that is running: the scheduler runs every runnable
\* goroutine, a Lock returns once the mutex is free, and a WriteJSON call returns
Step ==
    \/ \E s \in Subs : \/ SubscribeLock(s) \/ SubscribeRegister(s) \/ SubscribeDone(s)
                        \/ SubscribeRelock(s) \/ SubscribeDeregister(s)
                        \/ SubscribeClose(s)
    \/ \E p \in Pubs : \/ GoNotifyClients(p) \/ NotifyLock(p) \/ NotifyWrite(p)
                        \/ NotifyWriteReturn(p) \/ NotifyUnlock(p)

FairSpec == Spec /\ WF_vars(Step)

\* as Step, but for the return of WriteJSON: a write on a connection whose peer
\* does not read may block without end
StepButWriteReturn ==
    \/ \E s \in Subs : \/ SubscribeLock(s) \/ SubscribeRegister(s) \/ SubscribeDone(s)
                        \/ SubscribeRelock(s) \/ SubscribeDeregister(s)
                        \/ SubscribeClose(s)
    \/ \E p \in Pubs : \/ GoNotifyClients(p) \/ NotifyLock(p) \/ NotifyWrite(p)
                        \/ NotifyUnlock(p)

StallSpec == Spec /\ WF_vars(StepButWriteReturn)

----------------------------------------------------------------------------
(* Properties *)

Registered(s) == \E k \in DOMAIN subscribers : s \in DOMAIN subscribers[k]

\* notifyClients p is between its Lock and its Unlock
Publishing(p) == npc[p] \in {"range", "writing", "unlock"}

\* p takes a step of notifyClients
NotifyStep(p) == npc'[p] # npc[p]

\* the connections p has called WriteJSON on, after the step
VisitedNext(p) == { writes'[p][i].conn : i \in 1..Len(writes'[p]) }

\* the subscribers of p's room when p took the lock
Snapshot(p) == ConnsOf(atLock[p], msg[p].RoomID)

\* C1: room isolation. No step of a publish for room R attempts a write on, delivers
\* to, or cancels a connection that is registered under a key other than R.
RoomIsolation ==
    [][\A p \in Pubs, s \in Subs :
         ( /\ NotifyStep(p)
           /\ npc[p] # "idle"
           /\ \E k \in DOMAIN subscribers :
                k # msg[p].RoomID /\ s \in DOMAIN subscribers[k] )
         => /\ s \notin VisitedNext(p)
            /\ delivered'[s] = delivered[s]
            /\ ctl'[s] = ctl[s]
            /\ cancelCalls'[s] = cancelCalls[s]]_vars

\* C1 witness: a publish has written to the subscriber of its room while a
\* subscriber under another key has received nothing and is not cancelled.
RoomIsolationWitness ==
    \E p \in Pubs, s1, s2 \in Subs :
        /\ npc[p] = "range"
        /\ s1 \in DOMAIN RoomMap(subscribers, msg[p].RoomID)
        /\ \E i \in 1..Len(writes[p]) : writes[p][i].conn = s1 /\ writes[p][i].res = "ok"
        /\ \E k \in DOMAIN subscribers : k # msg[p].RoomID /\ s2 \in DOMAIN subscribers[k]
        /\ delivered[s2] = <<>>
        /\ ctl[s2] = "armed"

\* the entries of a connection's received frames that publish p wrote
FramesFrom(s, p) == { i \in 1..Len(delivered[s]) : delivered[s][i].pub = p }

\* C2: complete fan-out. When a publish returns, it has called WriteJSON exactly once
\* on every subscriber that was in its room's set when it took the lock and on no
\* other; each of them has received the published kind and value exactly once from
\* it, or has had its cancellation triggered.
CompleteFanOut ==
    [][\A p \in Pubs :
         (npc[p] # "done" /\ npc'[p] = "done")
         => /\ Visited(p) = Snapshot(p)
            /\ Len(writes[p]) = Cardinality(Snapshot(p))
            /\ \A i \in 1..Len(writes[p]) :
                 LET w == writes[p][i] IN
                 \/ /\ w.res = "ok"
                    /\ Cardinality(FramesFrom(w.conn, p)) = 1
                    /\ \A j \in FramesFrom(w.conn, p) :
                         delivered[w.conn][j].frame =
                             [kind |-> msg[p].Kind, value |-> msg[p].Value]
                 \/ /\ w.res = "err"
                    /\ FramesFrom(w.conn, p) = {}
                    /\ ctl[w.conn] = "fired"]_vars

\* C2 witness: a publish that found two subscribers has finished its loop, one
\* write having succeeded and one having failed.
CompleteFanOutWitness ==
    \E p \in Pubs :
        /\ npc[p] = "range"
        /\ Cardinality(Snapshot(p)) = 2
        /\ Visited(p) = Snapshot(p)
        /\ \E i, j \in 1..Len(writes[p]) :
             writes[p][i].res = "ok" /\ writes[p][j].res = "err"

\* C3 as stated: a publish that takes the lock after a subscriber's cancellation
\* has fired finds the subscriber absent from the set of its room (and so makes no
\* write attempt on it).
NoPublishAfterCancel ==
    [][\A p \in Pubs, s \in Subs :
         ( /\ npc[p] = "lock" /\ npc'[p] # "lock"
           /\ ctl[s] = "fired"
           /\ rawRoomID[s] = msg[p].RoomID )
         => /\ s \notin ConnsOf(subscribers', msg[p].RoomID)
            /\ ~Registered(s)']_vars

\* C3 amended: once a cancelled subscriber's own deregistration step has run it is
\* absent from the registry in every later state, and every WriteJSON call of a
\* publish is made on a connection whose lifecycle has registered and has not yet
\* deregistered.
NoPublishAfterDeregister ==
    /\ [](\A s \in Subs : pc[s] \in {"close", "done"} => ~Registered(s))
    /\ [][\A p \in Pubs, s \in Subs :
            (s \in VisitedNext(p) /\ s \notin Visited(p))
            => /\ pc[s] \in {"wait", "relock"}
               /\ rawRoomID[s] = msg[p].RoomID]_vars

\* C3 witness: a publish for the room of a cancelled and deregistered subscriber
\* has taken the lock after the removal and returns early on the empty set.
NoPublishAfterDeregisterWitness ==
    \E p \in Pubs, s \in Subs :
        /\ pc[s] \in {"close", "done"}
        /\ resp[s] = "101"
        /\ ctl[s] = "fired"
        /\ npc[p] = "unlock"
        /\ msg[p].RoomID = rawRoomID[s]
        /\ HasRoom(subscribers, rawRoomID[s])

\* the last WriteJSON call of p
LastWrite(p) == writes[p][Len(writes[p])]

\* C4: failure isolation. A failed write cancels the subscriber written to and no
\* other, the loop goes on to the subscribers of the snapshot not yet written to,
\* and the handler that produced the event keeps its success response.
FailureIsolation ==
    /\ [](\A p \in Pubs :
            ( /\ npc[p] = "range"
              /\ \E i \in 1..Len(writes[p]) : writes[p][i].res = "err" )
            => /\ hpc[p] = "returned" /\ hresp[p] = "200"
               /\ Snapshot(p) \ Visited(p) # {}
                    => ENABLED NotifyWrite(p) /\ ~ENABLED NotifyUnlock(p)
               /\ Snapshot(p) \ Visited(p) = {} => ENABLED NotifyUnlock(p))
    /\ [][\A p \in Pubs :
            (npc[p] = "writing" /\ npc'[p] = "range" /\ writes'[p][Len(writes[p])].res = "err")
            => /\ ctl'[LastWrite(p).conn] = "fired"
               /\ \A s \in Subs \ {LastWrite(p).conn} :
                    ctl'[s] = ctl[s] /\ cancelCalls'[s] = cancelCalls[s]
               /\ hpc' = hpc /\ hresp' = hresp]_vars

\* C4 witness: in one publish the first write failed and a later write to another
\* subscriber succeeded.
FailureIsolationWitness ==
    \E p \in Pubs :
        /\ Len(writes[p]) = 2
        /\ writes[p][1].res = "err"
        /\ writes[p][2].res = "ok"
        /\ ctl[writes[p][2].conn] = "armed"
        /\ Len(delivered[writes[p][2].conn]) = 1

\* C5: the dispatcher never mutates the registry. While a publish runs the registry
\* is the one it found when it took the lock, no step of notifyClients changes it,
\* and a handle leaves a room's set only by its own lifecycle's deregistration step.
DispatcherLeavesRegistry ==
    /\ [](\A p \in Pubs : Publishing(p) => subscribers = atLock[p])
    /\ [][ /\ \A p \in Pubs : NotifyStep(p) => subscribers' = subscribers
           /\ \A s \in Subs, k \in DOMAIN subscribers :
                (s \in ConnsOf(subscribers, k) /\ s \notin ConnsOf(subscribers', k))
                => pc[s] = "deregister" /\ pc'[s] = "close" ]_vars

\* C5 witness: a write of a publish has failed and the subscriber is still in the
\* registry.
DispatcherLeavesRegistryWitness ==
    \E p \in Pubs :
        /\ npc[p] = "range"
        /\ \E i \in 1..Len(writes[p]) :
             /\ writes[p][i].res = "err"
             /\ Registered(writes[p][i].conn)

\* no subscribe lifecycle and no publish has a step pending
Quiescent ==
    /\ ~mu
    /\ \A s \in Subs : pc[s] \in {"idle", "done"} \/ (pc[s] = "wait" /\ ctl[s] = "armed")
    /\ \A p \in Pubs : hpc[p] \in {"idle", "returned"} /\ npc[p] \in {"idle", "done"}

\* the keys under which s is in the registry
KeysOf(s) == { k \in DOMAIN subscribers : s \in DOMAIN subscribers[k] }

\* C6: registry consistency. A handle is in the registry exactly while its lifecycle
\* is between its registration and its deregistration, under its own room key and
\* no other; when nothing is in flight each room's set has as many handles as were
\* registered for the room and are not cancelled.
RegistryConsistency ==
    /\ \A s \in Subs :
         /\ pc[s] \in {"wait", "relock", "deregister"} => KeysOf(s) = {rawRoomID[s]}
         /\ pc[s] \notin {"wait", "relock", "deregister"} => KeysOf(s) = {}
    /\ Quiescent =>
         \A k \in RawIDs :
            Cardinality(ConnsOf(subscribers, k)) =
               Cardinality({ s \in Subs : /\ resp[s] = "101"
                                          /\ rawRoomID[s] = k
                                          /\ ctl[s] # "fired" })

\* C6 witness: all requests are over, two subscribers registered for one room, one
\* was cancelled by a publish and has deregistered, the other is still registered.
RegistryConsistencyWitness ==
    /\ Quiescent
    /\ \A p \in Pubs : npc[p] = "done"
    /\ \E s1, s2 \in Subs :
         /\ pc[s1] = "wait"
         /\ pc[s2] = "done" /\ cancelCalls[s2] > 0
         /\ rawRoomID[s1] = rawRoomID[s2]

\* C7: eventual teardown. Once a subscriber's cancellation has fired, the subscriber
\* is eventually out of the registry with its lifecycle over.
EventualTeardown ==
    \A s \in Subs : (ctl[s] = "fired") ~> (pc[s] = "done" /\ ~Registered(s))

\* C7 witness: a subscriber cancelled by the dispatcher alone has deregistered and
\* its lifecycle is over.
EventualTeardownWitness ==
    \E s \in Subs :
        /\ pc[s] = "done"
        /\ closed[s]
        /\ cancelCalls[s] > 0
        /\ ~reqEnded[s]
        /\ ~Registered(s)

\* the times the cancellation of s has been triggered
Triggers(s) == cancelCalls[s] + (IF reqEnded[s] THEN 1 ELSE 0)

\* C8: idempotent cancellation. A trigger of a control that has fired leaves the
\* control fired and changes nothing else of the subscriber, the registry or the
\* lock; the lifecycle then still passes its wait, and it deregisters once only.
IdempotentCancel ==
    /\ [](\A s \in Subs :
            /\ ctl[s] \in {"none", "armed", "fired"}
            /\ Triggers(s) > 0 => ctl[s] = "fired"
            /\ (Triggers(s) > 1 /\ pc[s] = "wait") => ENABLED SubscribeDone(s))
    /\ [][\A s \in Subs :
            /\ (ctl[s] = "fired" /\ Triggers(s)' > Triggers(s))
               => /\ ctl'[s] = "fired"
                  /\ pc' = pc /\ subscribers' = subscribers /\ mu' = mu
                  /\ closed' = closed /\ delivered' = delivered /\ resp' = resp
            /\ pc[s] \in {"close", "done"} => pc'[s] \in {"close", "done"}]_vars

\* C8 witness: two publishes both failed to write to a subscriber before it
\* deregistered, and its lifecycle is over.
IdempotentCancelWitness ==
    \E s \in Subs : pc[s] = "done" /\ cancelCalls[s] = 2 /\ ~Registered(s)

\* C9: nothing is registered on a failed connection attempt. A subscribe request
\* answered with an error is over, has no cancellation control and no connection
\* and left the registry as it was; every key of the registry is a room id that
\* parses and names a stored room.
NothingRegisteredOnFailure ==
    /\ [](\A s \in Subs :
            resp[s] \in {"400", "500"}
            => /\ pc[s] = "done" /\ ctl[s] = "none" /\ ~closed[s]
               /\ rawRoomID[s] = NoID /\ ~Registered(s))
    /\ [](\A k \in DOMAIN subscribers :
            uuidParse(k).ok /\ uuidParse(k).id \in StoredRooms)
    /\ [][\A s \in Subs :
            (resp[s] = "none" /\ resp'[s] \in {"400", "500"})
            => subscribers' = subscribers /\ ctl' = ctl]_vars

\* C9 witness: one subscribe request has failed while another subscriber is
\* registered.
NothingRegisteredOnFailureWitness ==
    \E s1, s2 \in Subs : resp[s1] \in {"400", "500"} /\ Registered(s2)

\* C10: fire-and-forget publication. A handler at its go statement can always take
\* it, whatever the lock and the writes in progress; whenever its notifyClients
\* exists, has the lock or not, the handler has answered 200 and returned.
FireAndForget ==
    \A p \in Pubs :
        /\ hpc[p] = "go" => hresp[p] = "200" /\ npc[p] = "idle" /\ ENABLED GoNotifyClients(p)
        /\ npc[p] # "idle" => hpc[p] = "returned" /\ hresp[p] = "200"

\* C10 witness: a handler has returned while its notifyClients still waits for the
\* lock, which another publish holds during a write that has not returned.
FireAndForgetWitness ==
    \E p, q \in Pubs :
        /\ p # q
        /\ npc[q] = "writing"
        /\ mu
        /\ hpc[p] = "returned"
        /\ npc[p] = "lock"

\* C11: one subscriber cannot stall the others without end. Whether or not a
\* WriteJSON call returns, a lifecycle that waits for the lock to register or to
\* deregister gets past it, and a publish that waits for the lock takes it.
NoIndefiniteStall ==
    /\ \A s \in Subs : (pc[s] = "lock") ~> (pc[s] = "wait")
    /\ \A s \in Subs : (pc[s] = "relock") ~> (pc[s] = "close")
    /\ \A p \in Pubs : (npc[p] = "lock") ~> (npc[p] # "lock")

\* C12: per-caller publish order. When a publish takes the lock, every publish for
\* the same room whose handler had returned before the handler of this one began
\* has taken the lock already.
PerCallerOrder ==
    [][\A q \in Pubs :
         (npc[q] = "lock" /\ npc'[q] # "lock")
         => \A p \in ahead[q] : npc[p] # "lock"]_vars

\* s is in the set of p's room in the registry p found when it took the lock
InSnapshot(s, p) ==
    /\ msg[p].RoomID \in DOMAIN atLock[p]
    /\ s \in DOMAIN atLock[p][msg[p].RoomID]

\* C13: no replay, no buffering. A publish writes to, and a connection receives a
\* frame of a publish from, only what was in the room's set when the publish took
\* the lock, and only while that publish runs; a publish that found no entry or an
\* empty set for its room makes no write.
NoReplay ==
    /\ [](\A p \in Pubs :
            (Publishing(p) /\ \A s \in Subs : ~InSnapshot(s, p))
            => writes[p] = <<>> /\ npc[p] = "unlock")
    /\ [][\A p \in Pubs, s \in Subs :
            /\ (s \in VisitedNext(p) /\ s \notin Visited(p)) => InSnapshot(s, p)
            /\ FramesFrom(s, p)' # FramesFrom(s, p)
               => npc[p] = "writing" /\ InSnapshot(s, p)]_vars

\* C13 witness: a publish has written to its room while a lifecycle for the same
\* room still waits for the lock to register.
NoReplayWitness ==
    \E p \in Pubs, s \in Subs :
        /\ npc[p] = "range"
        /\ Len(writes[p]) > 0
        /\ pc[s] = "lock"
        /\ rawRoomID[s] = msg[p].RoomID

\* the steps of a lifecycle
LifecycleSteps ==
    { <<"idle", "lock">>, <<"idle", "done">>, <<"lock", "register">>,
      <<"register", "wait">>, <<"wait", "relock">>, <<"relock", "deregister">>,
      <<"deregister", "close">>, <<"close", "done">> }

\* C14: the lifecycle is one-way. A lifecycle moves along
\* idle, lock, register, wait, relock, deregister, close, done only (or from idle to
\* done on a failed attempt); its handle enters the registry on its one registration
\* step, under its own room key, leaves it on its one deregistration step, and it
\* leaves its wait only with its cancellation triggered.
LifecycleOneWay ==
    /\ [](\A s \in Subs : Registered(s) => KeysOf(s) = {rawRoomID[s]})
    /\ [][\A s \in Subs :
            /\ pc'[s] # pc[s] => <<pc[s], pc'[s]>> \in LifecycleSteps
            /\ (pc[s] = "wait" /\ pc'[s] # "wait")
               => ctl[s] = "fired" /\ Triggers(s) > 0
            /\ (~Registered(s) /\ Registered(s)')
               => pc[s] = "register" /\ pc'[s] = "wait"
            /\ (Registered(s) /\ ~Registered(s)')
               => pc[s] = "deregister" /\ pc'[s] = "close"
            /\ rawRoomID[s] # NoID => rawRoomID'[s] = rawRoomID[s]]_vars

\* C14 witness: a lifecycle is over that registered and was ended by its request
\* context alone.
LifecycleOneWayWitness ==
    \E s \in Subs :
        /\ pc[s] = "done"
        /\ resp[s] = "101"
        /\ closed[s]
        /\ reqEnded[s]
        /\ cancelCalls[s] = 0

\* C15: room entries are created lazily and never destroyed. No step removes a key
\* of the registry; a key is added only by the registration step of a lifecycle for
\* that key, which is then its only handle; no step of notifyClients adds a key.
LazyRoomEntries ==
    [][ /\ DOMAIN subscribers \subseteq DOMAIN subscribers'
        /\ \A k \in (DOMAIN subscribers') \ (DOMAIN subscribers) :
             \E s \in Subs : /\ pc[s] = "register" /\ pc'[s] = "wait"
                             /\ rawRoomID[s] = k
                             /\ DOMAIN subscribers'[k] = {s}
        /\ \A p \in Pubs :
             NotifyStep(p) => DOMAIN subscribers' = DOMAIN subscribers ]_vars

\* C15 witness: a room's entry is left with the empty set, and a publish for a room
\* of no entry has taken the lock and created none.
LazyRoomEntriesWitness ==
    /\ \E k \in DOMAIN subscribers : DOMAIN subscribers[k] = {}
    /\ \E p \in Pubs : npc[p] = "unlock" /\ msg[p].RoomID \notin DOMAIN subscribers

\* the lifecycles and the publishes inside a section guarded by the mutex
SubsInSection == { s \in Subs : pc[s] \in {"register", "deregister"} }
PubsInSection == { p \in Pubs : Publishing(p) }

\* C16: mutual exclusion. At most one goroutine is inside a guarded section (a
\* registration, a deregistration, a whole publish with its writes), the mutex is
\* held exactly then, and the registry does not change while a publish runs.
MutualExclusion ==
    /\ [](Cardinality(SubsInSection) + Cardinality(PubsInSection) <= 1)
    /\ [](mu <=> Cardinality(SubsInSection) + Cardinality(PubsInSection) = 1)
    /\ [](\A p, q \in Pubs :
            (npc[p] = "writing" /\ npc[q] = "writing") => p = q)
    /\ [][\A p \in Pubs :
            (Publishing(p) /\ Publishing(p)') => subscribers' = subscribers]_vars

\* C16 witness: during a write of one publish another publish and a lifecycle wait
\* for the lock.
MutualExclusionWitness ==
    \E p, q \in Pubs, s \in Subs :
        /\ npc[p] = "writing"
        /\ npc[q] = "lock"
        /\ pc[s] \in {"lock", "relock"}

\* C17: no write on a released transport. A connection is closed by its lifecycle
\* only, after the handle has left the registry; no WriteJSON call is made or is
\* pending on a closed connection, and no step of notifyClients closes one.
NoWriteAfterClose ==
    /\ [](\A s \in Subs : closed[s] => pc[s] = "done" /\ ~Registered(s))
    /\ [](\A p \in Pubs : \A i \in 1..Len(writes[p]) :
            writes[p][i].res = "pending" => ~closed[writes[p][i].conn])
    /\ [][\A s \in Subs :
            /\ \A p \in Pubs :
                 (s \in VisitedNext(p) /\ s \notin Visited(p)) => ~closed[s]
            /\ (closed'[s] /\ ~closed[s]) => pc[s] = "close" /\ ~Registered(s)
            /\ \A p \in Pubs : NotifyStep(p) => closed'[s] = closed[s]]_vars

\* C17 witness: a publish has been through the set of a room, one of whose
\* lifecycles has closed its connection, and has not written on it.
NoWriteAfterCloseWitness ==
    \E p \in Pubs, s1, s2 \in Subs :
        /\ closed[s1]
        /\ rawRoomID[s1] = msg[p].RoomID
        /\ rawRoomID[s2] = msg[p].RoomID
        /\ npc[p] = "range"
        /\ Visited(p) = {s2}
        /\ Remaining(p) = {}

\* the place of the frame of publish p among the frames s has received
PlaceOf(s, p) == CHOOSE i \in FramesFrom(s, p) : TRUE

\* C18: one delivery order per room. Two connections that have both received the
\* frames of the same two publishes have received them in the same order, for the
\* frames of a publish are delivered as one block: none is delivered while another
\* publish is between taking and releasing the lock.
ConsistentOrder ==
    /\ [](\A s1, s2 \in Subs, p, q \in Pubs :
            ( /\ FramesFrom(s1, p) # {} /\ FramesFrom(s1, q) # {}
              /\ FramesFrom(s2, p) # {} /\ FramesFrom(s2, q) # {} )
            => (PlaceOf(s1, p) < PlaceOf(s1, q) <=> PlaceOf(s2, p) < PlaceOf(s2, q)))
    /\ [][\A s \in Subs, q \in Pubs :
            FramesFrom(s, q)' # FramesFrom(s, q)
            => \A p \in Pubs \ {q} : ~Publishing(p)]_vars

\* C18 witness: two connections have each received the frames of two publishes.
ConsistentOrderWitness ==
    \E s1, s2 \in Subs :
        /\ s1 # s2
        /\ Len(delivered[s1]) = 2
        /\ Len(delivered[s2]) = 2

\* C19: the registry is keyed by the raw room_id string. When a publish returns it
\* has written to exactly the registered lifecycles whose raw room id equals the
\* RoomID of the event; the sets of two keys share no handle, also when both keys
\* parse to the same UUID.
RawKeyRouting ==
    /\ [](\A k1, k2 \in DOMAIN subscribers :
            k1 # k2 => (DOMAIN subscribers[k1]) \cap (DOMAIN subscribers[k2]) = {})
    /\ [][\A p \in Pubs :
            (npc[p] # "done" /\ npc'[p] = "done")
            => Visited(p) = { s \in Subs : /\ pc[s] \in {"wait", "relock"}
                                           /\ rawRoomID[s] = msg[p].RoomID }]_vars

\* C19 witness: a publish returns early although a lifecycle is registered under
\* another spelling of the same room id.
RawKeyRoutingWitness ==
    \E p \in Pubs, s \in Subs :
        /\ npc[p] = "unlock"
        /\ pc[s] = "wait"
        /\ rawRoomID[s] # msg[p].RoomID
        /\ uuidParse(rawRoomID[s]).id = uuidParse(msg[p].RoomID).id

====
